---- MODULE Spec2Model ----
(***************************************************************************)
(* A model of five parts of polymer-analyzer:                              *)
(*   - the Polymer declaration property handlers (is, behaviors,           *)
(*     observers, listeners),                                              *)
(*   - the NamespaceScanner and its visitor,                               *)
(*   - TypeScriptPreparser.parse and its parse-error exception,            *)
(*   - ScannedPolymerElementMixin.resolve,                                 *)
(*   - validateElements, the validator of the generated metadata.          *)
(* Each part has its own specification over its own variables; the other   *)
(* variables keep their initial values.                                    *)
(***************************************************************************)
EXTENDS Integers, Sequences, FiniteSets, TLC

VARIABLES
    declaration,    \* the ScannedPolymerElement the handlers annotate
    lastCall,       \* history: the last handler call and the declaration before it
    elemBudget      \* AST elements the handlers may still be given

handlerVars == <<declaration, lastCall, elemBudget>>

VARIABLES
    nsDocument,     \* the scanned JavaScriptDocument: its visited nodes in traversal order
    nsStatus,       \* "idle", "scanning", "returned" or "threw": the current scan
    nsPos,          \* the next node of nsDocument the traversal visits
    nsVisitor,      \* the NamespaceVisitor of the current scan
    nsResults       \* what each finished scan of the scanner returned or threw

nsVars == <<nsDocument, nsStatus, nsPos, nsVisitor, nsResults>>

VARIABLES
    parsePc,        \* "idle", "start", "threw", "returned" or "applied"
    parseArgs,      \* the arguments of TypeScriptPreparser.parse
    sourceFile,     \* what ts.createSourceFile returned
    parseOutcome,   \* the exception parse threw or the document it returned
    corrected       \* history: an application of correctSourceRange and its result

parseVars == <<parsePc, parseArgs, sourceFile, parseOutcome, corrected>>

VARIABLES
    scanned,        \* the ScannedPolymerElementMixins of the document, by name
    resolved,       \* history: the last call of resolve and what it returned
    resolveCount    \* calls of resolve so far

resolveVars == <<scanned, resolved, resolveCount>>

VARIABLES
    candidate,      \* the metadata object handed to validateElements
    validated       \* what validateElements did with it: returned or threw

validateVars == <<candidate, validated>>

vars == <<handlerVars, nsVars, parseVars, resolveVars, validateVars>>

\* each part leaves the variables of the other parts alone
HandlersOnly == UNCHANGED <<nsVars, parseVars, resolveVars, validateVars>>
NsOnly == UNCHANGED <<handlerVars, parseVars, resolveVars, validateVars>>
ParseOnly == UNCHANGED <<handlerVars, nsVars, resolveVars, validateVars>>
ResolveOnly == UNCHANGED <<handlerVars, nsVars, parseVars, validateVars>>
ValidateOnly == UNCHANGED <<handlerVars, nsVars, parseVars, resolveVars>>

\* ------------------------------------------------------------------ bounds

\* Total number of AST elements (array elements, object properties) handed
\* to the property handlers in one behaviour.
MaxElems == 3

\* Nodes the visited document holds, declarators a statement holds, and
\* scans run on one scanner.
MaxStmts == 2
MaxDecls == 2
MaxScans == 2

\* Lines of the parsed contents, diagnostics the TypeScript parser reports,
\* and the largest line and column of a location offset.
MaxLines == 2
MaxDiags == 2
MaxOffset == 1

\* Properties, observers and listeners a scanned mixin declares, and calls of
\* resolve in one behaviour.
MaxOwn == 2
MaxResolves == 2

\* Characters of a schema_version string.
MaxVersionLen == 5

\* ------------------------------------------------------- JavaScript values

JsString(s) == [t |-> "string", v |-> s]
JsNumber(s) == [t |-> "number", v |-> s]
JsBoolean(b) == [t |-> "boolean", v |-> IF b THEN "true" ELSE "false"]
JsUndefined == [t |-> "undefined", v |-> ""]

\* typeof x
TypeOf(x) == x.t

\* ToBoolean(x), as `||` and `&&` apply it
Truthy(x) ==
    CASE x.t = "string" -> x.v # ""
      [] x.t = "number" -> x.v # "0"
      [] x.t = "boolean" -> x.v = "true"
      [] OTHER -> FALSE

\* --------------------------------------------------------------- AST nodes

Literal(v) == [type |-> "Literal", value |-> v]
Identifier(n) == [type |-> "Identifier", name |-> n]
MemberExpression(o, p, c) ==
    [type |-> "MemberExpression", object |-> o, property |-> p, computed |-> c]
CallExpression == [type |-> "CallExpression"]
Property(k, c, v) == [type |-> "Property", key |-> k, computed |-> c, value |-> v]
ArrayExpression(es) == [type |-> "ArrayExpression", elements |-> es]
ObjectExpression(ps) == [type |-> "ObjectExpression", properties |-> ps]

\* A dotted identifier path is a sequence of segments; <<>> is `undefined`.
NoName == << >>

\* astValue.getIdentifierName: an identifier's name, a member expression's
\* dotted path (a string or identifier subscript is a path segment), and
\* undefined for anything else.
RECURSIVE getIdentifierName(_)
getIdentifierName(node) ==
    CASE node.type = "Identifier" -> <<node.name>>
      [] node.type = "MemberExpression" ->
            LET object == getIdentifierName(node.object)
                property ==
                    IF node.computed
                    THEN CASE node.property.type = "Literal"
                                  /\ TypeOf(node.property.value) = "string"
                                -> <<node.property.value.v>>
                           [] node.property.type = "Identifier"
                                -> <<node.property.name>>
                           [] OTHER -> NoName
                    ELSE getIdentifierName(node.property)
            IN  IF object # NoName /\ property # NoName
                THEN object \o property
                ELSE NoName
      [] OTHER -> NoName

\* document.sourceRangeForNode(node): undefined for a node without a
\* location, else the node's range, identified by its node. The nodes given
\* to the property handlers all have a location.
NoRange == [undefined |-> TRUE]
sourceRangeForNode(node) ==
    IF "loc" \in DOMAIN node /\ ~node.loc THEN NoRange ELSE [of |-> node]

Seqs(S, n) == UNION {[1..k -> S] : k \in 0..n}

\* --------------------------------------------------- handler input domains

\* keys a non-computed property can have: 'tap', '', 1, tap
PlainKeys ==
    {Literal(JsString("tap")), Literal(JsString("")), Literal(JsNumber("1")),
     Identifier("tap")}
\* keys in brackets: [foo], [foo()], ['tap']
ComputedKeys == {Identifier("foo"), CallExpression, Literal(JsString("tap"))}
\* handler values: 'h', 1, h
HandlerValues == {Literal(JsString("h")), Literal(JsNumber("1")), Identifier("h")}

Properties ==
    {Property(k, FALSE, v) : k \in PlainKeys, v \in HandlerValues}
        \cup {Property(k, TRUE, v) : k \in ComputedKeys, v \in HandlerValues}

\* behaviors elements: A, A.B, A['B'], A[f()], f(), 'A'
BehaviorElements ==
    {Identifier("A"),
     MemberExpression(Identifier("A"), Identifier("B"), FALSE),
     MemberExpression(Identifier("A"), CallExpression, TRUE),
     CallExpression,
     Literal(JsString("A"))}

\* observers elements: 'f(a)', f()
ObserverElements == {Literal(JsString("f(a)")), CallExpression}

\* ---------------------------------------------------------------- handlers

EmptyDeclaration ==
    [tagName |-> JsUndefined, listeners |-> << >>, warnings |-> << >>,
     behaviorAssignments |-> << >>, observers |-> << >>]

\* getBehaviorAssignmentOrWarning without the check of the name
getBehaviorAssignmentUnchecked(argNode) ==
    [kind |-> "behaviorAssignment",
     assignment |-> [name |-> getIdentifierName(argNode),
                     sourceRange |-> sourceRangeForNode(argNode)]]

\* getBehaviorAssignmentOrWarning(argNode, document)
getBehaviorAssignmentOrWarning(argNode) ==
    LET behaviorName == getIdentifierName(argNode)
    IN  IF behaviorName = NoName
        THEN [kind |-> "warning",
              warning |-> [code |-> "could-not-determine-behavior-name",
                           severity |-> "WARNING",
                           sourceRange |-> sourceRangeForNode(argNode)]]
        ELSE [kind |-> "behaviorAssignment",
              assignment |-> [name |-> behaviorName,
                              sourceRange |-> sourceRangeForNode(argNode)]]

\* the loop of the `behaviors` handler over node.elements, from element i on
RECURSIVE behaviorsLoop(_, _, _)
behaviorsLoop(decl, elements, i) ==
    IF i > Len(elements)
    THEN decl
    ELSE LET result == getBehaviorAssignmentOrWarning(elements[i])
             next ==
                IF result.kind = "warning"
                THEN [decl EXCEPT !.warnings = Append(@, result.warning)]
                ELSE [decl EXCEPT
                        !.behaviorAssignments = Append(@, result.assignment)]
         IN  behaviorsLoop(next, elements, i + 1)

\* declarationPropertyHandlers(...).behaviors(node)
behaviors(decl, node) ==
    IF node.type # "ArrayExpression"
    THEN decl
    ELSE behaviorsLoop(decl, node.elements, 1)

\* const evtName = p.key.type === 'Literal' && p.key.value ||
\*                 p.key.type === 'Identifier' && p.key.name;
evtNameOf(p) ==
    LET left == IF p.key.type = "Literal" THEN p.key.value ELSE JsBoolean(FALSE)
        right == IF p.key.type = "Identifier"
                 THEN JsString(p.key.name)
                 ELSE JsBoolean(FALSE)
    IN  IF Truthy(left) THEN left ELSE right

\* const handler = p.value.type !== 'Literal' || p.value.value;
handlerOf(p) ==
    IF p.value.type # "Literal" THEN JsBoolean(TRUE) ELSE p.value.value

\* the loop of the `listeners` handler over node.properties, from property i on
RECURSIVE listenersLoop(_, _, _)
listenersLoop(decl, properties, i) ==
    IF i > Len(properties)
    THEN decl
    ELSE LET p == properties[i]
             evtName == evtNameOf(p)
             handler == handlerOf(p)
             next ==
                IF TypeOf(evtName) # "string" \/ TypeOf(handler) # "string"
                THEN decl
                ELSE [decl EXCEPT !.listeners =
                        Append(@, [event |-> evtName.v, handler |-> handler.v])]
         IN  listenersLoop(next, properties, i + 1)

\* declarationPropertyHandlers(...).listeners(node)
listeners(decl, node) ==
    IF node.type # "ObjectExpression"
    THEN [decl EXCEPT !.warnings =
            Append(@, [code |-> "invalid-listeners-declaration",
                       severity |-> "ERROR",
                       sourceRange |-> sourceRangeForNode(node)])]
    ELSE listenersLoop(decl, node.properties, 1)

\* expressionToValue(element): a literal's value, undefined for what cannot
\* be evaluated statically
expressionToValue(node) ==
    IF node.type = "Literal" THEN node.value ELSE JsUndefined

CANT_CONVERT == JsString("UNKNOWN")

\* the loop of the `observers` handler over node.elements, from element i on
RECURSIVE observersLoop(_, _, _)
observersLoop(decl, elements, i) ==
    IF i > Len(elements)
    THEN decl
    ELSE LET v0 == expressionToValue(elements[i])
             v == IF v0 = JsUndefined THEN CANT_CONVERT ELSE v0
         IN  observersLoop(
                [decl EXCEPT !.observers =
                    Append(@, [javascriptNode |-> elements[i], expression |-> v])],
                elements, i + 1)

\* declarationPropertyHandlers(...).observers(node)
observers(decl, node) ==
    IF node.type # "ArrayExpression"
    THEN decl
    ELSE observersLoop(decl, node.elements, 1)

\* declarationPropertyHandlers(...).is(node): '' + node.value
is(decl, node) ==
    IF node.type = "Literal"
    THEN [decl EXCEPT !.tagName = JsString(node.value.v)]
    ELSE decl

\* ------------------------------------------------- the handlers' behaviour

NoCall == [handler |-> "none", node |-> CallExpression, before |-> EmptyDeclaration]

\* the nodes a handler can be given with n elements of budget left
ArrayNodes(E, n) == {ArrayExpression(es) : es \in Seqs(E, n)}
ObjectNodes(n) == {ObjectExpression(ps) : ps \in Seqs(Properties, n)}
ScalarNodes == {Literal(JsString("my-element")), Identifier("x")}

\* elements a node holds; a call costs at least one
Cost(node) ==
    LET n == CASE node.type = "ArrayExpression" -> Len(node.elements)
               [] node.type = "ObjectExpression" -> Len(node.properties)
               [] OTHER -> 0
    IN  IF n = 0 THEN 1 ELSE n

HandlersIdle ==
    /\ declaration = EmptyDeclaration
    /\ lastCall = NoCall
    /\ elemBudget = 0

InitHandlers ==
    /\ declaration = EmptyDeclaration
    /\ lastCall = NoCall
    /\ elemBudget = MaxElems

Call(name, node, after) ==
    /\ elemBudget >= Cost(node)
    /\ declaration' = after
    /\ lastCall' = [handler |-> name, node |-> node, before |-> declaration]
    /\ elemBudget' = elemBudget - Cost(node)
    /\ HandlersOnly

IsHandler ==
    \E node \in ScalarNodes \cup ArrayNodes(BehaviorElements, 0) :
        Call("is", node, is(declaration, node))

BehaviorsHandler ==
    \E node \in ArrayNodes(BehaviorElements, elemBudget) \cup ScalarNodes :
        Call("behaviors", node, behaviors(declaration, node))

ObserversHandler ==
    \E node \in ArrayNodes(ObserverElements, elemBudget) \cup ScalarNodes :
        Call("observers", node, observers(declaration, node))

ListenersHandler ==
    \E node \in ObjectNodes(elemBudget) \cup ScalarNodes
                    \cup ArrayNodes(BehaviorElements, 0) :
        Call("listeners", node, listeners(declaration, node))

NextHandlers ==
    \/ IsHandler
    \/ BehaviorsHandler
    \/ ObserversHandler
    \/ ListenersHandler

\* ------------------------------------------------------- namespace scanner

\* An attached comment: absent, or a text that may contain '@namespace' and
\* whose namespace tag may carry a name.
NoComment == [present |-> FALSE, marker |-> FALSE, name |-> NoName]
Comment(marker, name) == [present |-> TRUE, marker |-> marker, name |-> name]
Comments ==
    {NoComment, Comment(FALSE, NoName), Comment(TRUE, NoName),
     Comment(TRUE, <<"Bar">>)}

\* esutil.getAttachedComment(node)
getAttachedComment(node) == node.leadingComment
\* comment.indexOf('@namespace') !== -1
hasNamespaceMarker(comment) == comment.marker
\* jsdoc.parseJsdoc(comment)
parseJsdoc(comment) == [tagName |-> comment.name]
\* jsdoc.getTag(docs, 'namespace', 'name')
getTag(docs) == docs.tagName

ObjectPattern == [type |-> "ObjectPattern"]
VariableDeclarator(id) == [type |-> "VariableDeclarator", id |-> id]

\* declarator lists: `Foo`, `{a}`, and `Foo, Foo, ...` up to MaxDecls
DeclaratorLists ==
    {<<VariableDeclarator(Identifier("Foo"))>>, <<VariableDeclarator(ObjectPattern)>>}
        \cup {[i \in 1..n |-> VariableDeclarator(Identifier("Foo"))] : n \in 2..MaxDecls}

\* left-hand sides: Foo.Baz, Foo[f()]
LeftSides ==
    {MemberExpression(Identifier("Foo"), Identifier("Baz"), FALSE),
     MemberExpression(Identifier("Foo"), CallExpression, TRUE)}

\* A visit: the node entered and its parent. Statements carry the attached
\* comment and the location; `id` tells the nodes of a document apart.
VariableDeclarationVisits ==
    {[node |-> [type |-> "VariableDeclaration", declarations |-> ds,
                leadingComment |-> c, loc |-> l, id |-> 0],
      parent |-> [type |-> "Program"]] :
        ds \in DeclaratorLists, c \in Comments, l \in BOOLEAN}
AssignmentVisits ==
    {[node |-> [type |-> "AssignmentExpression", left |-> lhs],
      parent |-> [type |-> "ExpressionStatement",
                  leadingComment |-> c, loc |-> l, id |-> 0]] :
        lhs \in LeftSides, c \in Comments, l \in BOOLEAN}
Visits == VariableDeclarationVisits \cup AssignmentVisits

\* the i-th visit of a document, its statement numbered i
Numbered(visit, i) ==
    IF visit.node.type = "VariableDeclaration"
    THEN [visit EXCEPT !.node.id = i]
    ELSE [visit EXCEPT !.parent.id = i]
Documents ==
    {[i \in 1..Len(vs) |-> Numbered(vs[i], i)] : vs \in Seqs(Visits, MaxStmts)}

\* new NamespaceVisitor(document); `asked` records the nodes whose range the
\* visitor asked the document for, `threw` an error thrown by a hook
NewVisitor == [namespaces |-> << >>, asked |-> {}, threw |-> FALSE]

\* new ScannedNamespace(name, node, docs, sourceRange)
ScannedNamespace(name, node, docs, sourceRange) ==
    [name |-> name, astNode |-> node, jsdoc |-> docs, sourceRange |-> sourceRange]

\* _initNamespace without the fallback to getName(): only a tag name counts
initNamespaceTagOnly(v, node, derived) ==
    LET comment == getAttachedComment(node)
        docs == parseJsdoc(comment)
    IN  IF ~comment.present \/ ~hasNamespaceMarker(comment) \/ getTag(docs) = NoName
        THEN v
        ELSE LET sourceRange == sourceRangeForNode(node)
                 w == [v EXCEPT !.asked = @ \cup {node.id}]
             IN  IF sourceRange = NoRange
                 THEN [w EXCEPT !.threw = TRUE]
                 ELSE [w EXCEPT !.namespaces =
                         Append(@, ScannedNamespace(getTag(docs), node, docs,
                                                    sourceRange))]

\* _initNamespace returning, instead of throwing, on a missing range
initNamespaceSkipsUnlocated(v, node, derived) ==
    LET comment == getAttachedComment(node)
        docs == parseJsdoc(comment)
        name == IF getTag(docs) # NoName THEN getTag(docs) ELSE derived
    IN  IF ~comment.present \/ ~hasNamespaceMarker(comment) \/ name = NoName
        THEN v
        ELSE LET sourceRange == sourceRangeForNode(node)
                 w == [v EXCEPT !.asked = @ \cup {node.id}]
             IN  IF sourceRange = NoRange
                 THEN w
                 ELSE [w EXCEPT !.namespaces =
                         Append(@, ScannedNamespace(name, node, docs, sourceRange))]

\* _initNamespace preferring getName() to the name of the tag
initNamespaceDerivedFirst(v, node, derived) ==
    LET comment == getAttachedComment(node)
        docs == parseJsdoc(comment)
        name == IF derived # NoName THEN derived ELSE getTag(docs)
    IN  IF ~comment.present \/ ~hasNamespaceMarker(comment) \/ name = NoName
        THEN v
        ELSE LET sourceRange == sourceRangeForNode(node)
                 w == [v EXCEPT !.asked = @ \cup {node.id}]
             IN  IF sourceRange = NoRange
                 THEN [w EXCEPT !.threw = TRUE]
                 ELSE [w EXCEPT !.namespaces =
                         Append(@, ScannedNamespace(name, node, docs, sourceRange))]

\* NamespaceVisitor._initNamespace(node, getName); derived is getName()
initNamespace(v, node, derived) ==
    LET comment == getAttachedComment(node)
    IN  IF ~comment.present \/ ~hasNamespaceMarker(comment)
        THEN v
        ELSE LET docs == parseJsdoc(comment)
                 name == IF getTag(docs) # NoName THEN getTag(docs) ELSE derived
             IN  IF name = NoName
                 THEN v
                 ELSE LET sourceRange == sourceRangeForNode(node)
                          w == [v EXCEPT !.asked = @ \cup {node.id}]
                      IN  IF sourceRange = NoRange
                          THEN [w EXCEPT !.threw = TRUE]
                          ELSE [w EXCEPT !.namespaces =
                                  Append(@, ScannedNamespace(name, node, docs,
                                                             sourceRange))]

\* enterVariableDeclaration without the check for a single declarator
enterVariableDeclarationFirstOnly(v, node, parent) ==
    initNamespace(v, node, getIdentifierName(node.declarations[1].id))

\* NamespaceVisitor.enterVariableDeclaration(node, _parent)
enterVariableDeclaration(v, node, parent) ==
    IF Len(node.declarations) # 1
    THEN v
    ELSE initNamespace(v, node, getIdentifierName(node.declarations[1].id))

\* NamespaceVisitor.enterAssignmentExpression(node, parent)
enterAssignmentExpression(v, node, parent) ==
    initNamespace(v, parent, getIdentifierName(node.left))

NsIdle ==
    /\ nsDocument = << >>
    /\ nsStatus = "idle"
    /\ nsPos = 0
    /\ nsVisitor = NewVisitor
    /\ nsResults = << >>

InitNs ==
    /\ nsDocument \in Documents
    /\ nsStatus = "idle"
    /\ nsPos = 0
    /\ nsVisitor = NewVisitor
    /\ nsResults = << >>

\* a scan that goes on with the visitor of the scan before it
StartScanKeepsVisitor ==
    /\ nsStatus # "scanning"
    /\ Len(nsResults) < MaxScans
    /\ nsStatus' = "scanning"
    /\ nsVisitor' = [nsVisitor EXCEPT !.threw = FALSE]
    /\ nsPos' = 1
    /\ UNCHANGED <<nsDocument, nsResults>>
    /\ NsOnly

\* NamespaceScanner.scan up to `await visit(visitor)`
StartScan ==
    /\ nsStatus # "scanning"
    /\ Len(nsResults) < MaxScans
    /\ nsStatus' = "scanning"
    /\ nsVisitor' = NewVisitor
    /\ nsPos' = 1
    /\ UNCHANGED <<nsDocument, nsResults>>
    /\ NsOnly

\* the traversal enters the next node; an error thrown by the hook ends the scan
Entered(v) ==
    /\ nsVisitor' = v
    /\ IF v.threw
       THEN /\ nsStatus' = "threw"
            /\ nsResults' = Append(nsResults, [threw |-> TRUE, namespaces |-> << >>])
            /\ nsPos' = nsPos
       ELSE /\ nsStatus' = "scanning"
            /\ nsResults' = nsResults
            /\ nsPos' = nsPos + 1
    /\ UNCHANGED nsDocument
    /\ NsOnly

VisitVariableDeclaration ==
    /\ nsStatus = "scanning"
    /\ nsPos <= Len(nsDocument)
    /\ nsDocument[nsPos].node.type = "VariableDeclaration"
    /\ Entered(enterVariableDeclaration(nsVisitor, nsDocument[nsPos].node,
                                        nsDocument[nsPos].parent))

VisitAssignmentExpression ==
    /\ nsStatus = "scanning"
    /\ nsPos <= Len(nsDocument)
    /\ nsDocument[nsPos].node.type = "AssignmentExpression"
    /\ Entered(enterAssignmentExpression(nsVisitor, nsDocument[nsPos].node,
                                         nsDocument[nsPos].parent))

\* return Array.from(visitor.namespaces)
ReturnScan ==
    /\ nsStatus = "scanning"
    /\ nsPos > Len(nsDocument)
    /\ nsStatus' = "returned"
    /\ nsResults' = Append(nsResults,
                           [threw |-> FALSE, namespaces |-> nsVisitor.namespaces])
    /\ UNCHANGED <<nsDocument, nsPos, nsVisitor>>
    /\ NsOnly

NextNs ==
    \/ StartScan
    \/ VisitVariableDeclaration
    \/ VisitAssignmentExpression
    \/ ReturnScan

\* ---------------------------------------------------- TypeScript preparser

\* A position {line, column}; a SourceRange; an absent range.
Position(l, c) == [line |-> l, column |-> c]
SourceRange(f, s, e) == [file |-> f, start |-> s, end |-> e]
UndefinedRange == [undefined |-> TRUE]

\* A LocationOffset {line, column}, or none.
NoOffset == [present |-> FALSE, line |-> 0, column |-> 0]
LocationOffset(l, c) == [present |-> TRUE, line |-> l, column |-> c]
Offsets == {LocationOffset(l, c) : l \in 0..MaxOffset, c \in 0..MaxOffset}

\* The position of an inline document mapped into its containing file: the
\* offset's line is added, and its column only on the inline document's
\* first line.
correctPosition(position, offset) ==
    Position(position.line + offset.line,
             position.column + (IF position.line = 0 THEN offset.column ELSE 0))

\* correctSourceRange(range, offset?)
correctSourceRange(range, offset) ==
    IF range = UndefinedRange \/ ~offset.present
    THEN range
    ELSE SourceRange(range.file,
                     correctPosition(range.start, offset),
                     correctPosition(range.end, offset))

\* contents: the lengths of its lines, each 1 or 2 characters
LineLengths == 1..2
Contents == Seqs(LineLengths, MaxLines) \ {<< >>}

RECURSIVE SumTo(_, _)
SumTo(lens, n) == IF n = 0 THEN 0 ELSE SumTo(lens, n - 1) + lens[n]

\* the position at which line k (from 0) of the contents starts
LineStart(contents, k) == SumTo(contents, k)

\* sourceFile.getLineAndCharacterOfPosition(pos): the last line that starts
\* at or before pos, and the distance from its start
getLineAndCharacterOfPosition(file, pos) ==
    LET lines == 0..(Len(file.contents) - 1)
        line == CHOOSE k \in lines :
                    /\ LineStart(file.contents, k) <= pos
                    /\ \A j \in lines : LineStart(file.contents, j) <= pos => j <= k
    IN  [line |-> line, character |-> pos - LineStart(file.contents, line)]

\* ts.Diagnostic: category, start, length; a diagnostic covers one character
\* of the contents
DiagnosticCategories == {"Warning", "Error"}
Diagnostics(contents) ==
    {[category |-> c, start |-> st, length |-> 1] :
        c \in DiagnosticCategories,
        st \in 0..(SumTo(contents, Len(contents)) - 1)}

\* inlineInfo: absent, without a locationOffset, or with one
NoInlineInfo == [present |-> FALSE, locationOffset |-> NoOffset]
InlineInfo(offset) == [present |-> TRUE, locationOffset |-> offset]
InlineInfos == {NoInlineInfo, InlineInfo(NoOffset)} \cup {InlineInfo(o) : o \in Offsets}

\* find returning the last error diagnostic instead of the first
RECURSIVE findLastError(_, _)
findLastError(diagnostics, i) ==
    IF i > Len(diagnostics) THEN 0
    ELSE LET later == findLastError(diagnostics, i + 1)
         IN  IF later # 0 THEN later
             ELSE IF diagnostics[i].category = "Error" THEN i ELSE 0

\* diagnostics.find((d) => d.category === ts.DiagnosticCategory.Error): the
\* index of the first error diagnostic from i on, 0 when there is none
RECURSIVE findError(_, _)
findError(diagnostics, i) ==
    IF i > Len(diagnostics) THEN 0
    ELSE IF diagnostics[i].category = "Error" THEN i
    ELSE findError(diagnostics, i + 1)

\* the warning with the offset's column added on every line
parseErrorWarningShifted(args, file, parseError) ==
    LET start == getLineAndCharacterOfPosition(file, parseError.start)
        end == getLineAndCharacterOfPosition(file, parseError.start + parseError.length)
        offset == args.inlineInfo.locationOffset
    IN  [code |-> "parse-error",
         severity |-> "ERROR",
         sourceRange |->
            SourceRange(args.url,
                Position(start.line + offset.line, start.character + offset.column),
                Position(end.line + offset.line, end.character + offset.column))]

\* the warning of the WarningCarryingException parse throws for parseError
parseErrorWarning(args, file, parseError) ==
    LET start == getLineAndCharacterOfPosition(file, parseError.start)
        end == getLineAndCharacterOfPosition(file, parseError.start + parseError.length)
    IN  [code |-> "parse-error",
         severity |-> "ERROR",
         sourceRange |->
            correctSourceRange(
                SourceRange(args.url,
                            Position(start.line, start.character),
                            Position(end.line, end.character)),
                args.inlineInfo.locationOffset)]

\* new ParsedTypeScriptDocument({...})
ParsedTypeScriptDocument(args, file) ==
    [url |-> args.url,
     contents |-> args.contents,
     ast |-> file,
     locationOffset |-> args.inlineInfo.locationOffset,
     isInline |-> args.inlineInfo.present]

NoArgs == [contents |-> <<1>>, url |-> "", inlineInfo |-> NoInlineInfo]
NoSourceFile == [contents |-> << >>, parseDiagnostics |-> << >>]
NoOutcome == [kind |-> "none"]
NoCorrection ==
    [applied |-> FALSE, range |-> UndefinedRange, offset |-> NoOffset,
     result |-> UndefinedRange]

ParseIdle ==
    /\ parsePc = "idle"
    /\ parseArgs = NoArgs
    /\ sourceFile = NoSourceFile
    /\ parseOutcome = NoOutcome
    /\ corrected = NoCorrection

\* parse is about to be called with some contents, or a caller is about to
\* correct a range of its own
InitParse ==
    /\ \/ /\ parsePc = "start"
          /\ parseArgs \in
                {[contents |-> c, url |-> "a.ts", inlineInfo |-> i] :
                    c \in Contents, i \in InlineInfos}
       \/ /\ parsePc = "idle"
          /\ parseArgs = NoArgs
    /\ sourceFile = NoSourceFile
    /\ parseOutcome = NoOutcome
    /\ corrected = NoCorrection

\* ts.createSourceFile(url, contents, ...) with the parseDiagnostics ds
createSourceFile(args, ds) == [contents |-> args.contents, parseDiagnostics |-> ds]

\* parse(contents, url, inlineInfo) when the parser reports an error
\* diagnostic: throw new WarningCarryingException({...})
ParseThrows ==
    /\ parsePc = "start"
    /\ \E ds \in Seqs(Diagnostics(parseArgs.contents), MaxDiags) :
            LET file == createSourceFile(parseArgs, ds)
                parseError == findError(file.parseDiagnostics, 1)
            IN  /\ parseError # 0
                /\ sourceFile' = file
                /\ parseOutcome' =
                        [kind |-> "exception",
                         warning |-> parseErrorWarning(parseArgs, file,
                                        file.parseDiagnostics[parseError])]
    /\ parsePc' = "threw"
    /\ UNCHANGED <<parseArgs, corrected>>
    /\ ParseOnly

\* parse(contents, url, inlineInfo) when it reports none:
\* return new ParsedTypeScriptDocument({...})
ParseReturns ==
    /\ parsePc = "start"
    /\ \E ds \in Seqs(Diagnostics(parseArgs.contents), MaxDiags) :
            LET file == createSourceFile(parseArgs, ds)
                parseError == findError(file.parseDiagnostics, 1)
            IN  /\ parseError = 0
                /\ sourceFile' = file
                /\ parseOutcome' =
                        [kind |-> "document",
                         document |-> ParsedTypeScriptDocument(parseArgs, file)]
    /\ parsePc' = "returned"
    /\ UNCHANGED <<parseArgs, corrected>>
    /\ ParseOnly

\* the ranges a caller corrects: positions within MaxLines lines
Positions == {Position(l, c) : l \in 0..(MaxLines - 1), c \in {0} \cup LineLengths}
Ranges == {SourceRange("a.html", st, en) : st \in Positions, en \in Positions}

\* a call of correctSourceRange(range, offset)
CorrectRange ==
    /\ parsePc = "idle"
    /\ \E range \in Ranges \cup {UndefinedRange}, offset \in Offsets \cup {NoOffset} :
            corrected' = [applied |-> TRUE, range |-> range, offset |-> offset,
                          result |-> correctSourceRange(range, offset)]
    /\ parsePc' = "applied"
    /\ UNCHANGED <<parseArgs, sourceFile, parseOutcome>>
    /\ ParseOnly

NextParse ==
    \/ ParseThrows
    \/ ParseReturns
    \/ CorrectRange

\* ------------------------------------------------- polymer element mixins

FeatureNames == {"A", "B", "C"}

\* what the mixin named f declares itself: its first k properties (numbered,
\* so that two mixins declare the same property names), observers, listeners
OwnProperties(f, k) == [i \in 1..k |-> [name |-> i, declaredBy |-> f]]
OwnObservers(f, k) == [i \in 1..k |-> [expression |-> i, declaredBy |-> f]]
OwnListeners(f, k) == [i \in 1..k |-> [event |-> i, handler |-> f]]

\* the behaviors a mixin names: none, another mixin, and for A also B and C
BehaviorLists(f) ==
    {<< >>} \cup {<<[name |-> g]>> : g \in FeatureNames \ {f}}
        \cup (IF f = "A" THEN {<<[name |-> "B"], [name |-> "C"]>>} ELSE {})

WarningLists(f) == {<< >>, <<[code |-> "scan-warning", on |-> f]>>}

\* new ScannedPolymerElementMixin(options) after its scanner filled it
ScannedPolymerElementMixins(f) ==
    {[name |-> f,
      properties |-> OwnProperties(f, k),
      observers |-> OwnObservers(f, k),
      listeners |-> OwnListeners(f, k),
      behaviorAssignments |-> bs,
      warnings |-> ws,
      pseudo |-> FALSE] :
        k \in 0..MaxOwn, bs \in BehaviorLists(f), ws \in WarningLists(f)}

\* new PolymerElementMixin()
NewPolymerElementMixin ==
    [kinds |-> {"element-mixin", "polymer-element-mixin"},
     behaviorAssignments |-> << >>,
     localIds |-> << >>]

\* Object.assign(target, source)
ObjectAssign(target, source) ==
    [field \in DOMAIN target \cup DOMAIN source |->
        IF field \in DOMAIN source THEN source[field] ELSE target[field]]

\* resolve copying the mixin without its declared lists
resolveWithoutLists(this) ==
    [ObjectAssign(NewPolymerElementMixin, this) EXCEPT
        !.properties = << >>, !.observers = << >>, !.listeners = << >>]

\* resolve keeping what the constructor of PolymerElementMixin set
resolveKeepsConstructed(this) == ObjectAssign(this, NewPolymerElementMixin)

\* ScannedPolymerElementMixin.resolve(_document)
resolve(this) == ObjectAssign(NewPolymerElementMixin, this)

NotResolved == [of |-> "", element |-> NewPolymerElementMixin]

ResolveIdle ==
    /\ scanned = [f \in FeatureNames |-> CHOOSE m \in ScannedPolymerElementMixins(f) :
                        m.properties = << >> /\ m.behaviorAssignments = << >>
                            /\ m.warnings = << >>]
    /\ resolved = NotResolved
    /\ resolveCount = 0

InitResolve ==
    /\ scanned \in [FeatureNames -> UNION {ScannedPolymerElementMixins(f) : f \in FeatureNames}]
    /\ \A f \in FeatureNames : scanned[f].name = f
    /\ resolved = NotResolved
    /\ resolveCount = 0

\* a call of scanned[f].resolve(document)
Resolve ==
    /\ resolveCount < MaxResolves
    /\ \E f \in FeatureNames :
            resolved' = [of |-> f, element |-> resolve(scanned[f])]
    /\ resolveCount' = resolveCount + 1
    /\ UNCHANGED scanned
    /\ ResolveOnly

NextResolve ==
    \/ Resolve

\* ------------------------------------------------------ metadata validator

\* A schema_version is a string: a sequence of characters.
VersionChars == {"0", "1", "5", "."}
Digits == {"0", "1", "5"}
DigitValue(c) == CASE c = "0" -> 0 [] c = "1" -> 1 [] OTHER -> 5
VersionStrings == Seqs(VersionChars, MaxVersionLen)

\* A field of the candidate object: absent, or a value of some JSON type.
Absent == [t |-> "undefined", v |-> << >>]
StringValue(s) == [t |-> "string", v |-> s]
NumberValue == [t |-> "number", v |-> << >>]
ArrayValue == [t |-> "array", v |-> << >>]

\* The objects validateElements is given: schema_version absent, a number or
\* any string; elements absent, an empty array or a string; perhaps a field
\* the schema does not know.
Candidates ==
    {[schema_version |-> sv, elements |-> es, new_field |-> nf] :
        sv \in {Absent, NumberValue} \cup {StringValue(s) : s \in VersionStrings},
        es \in {Absent, ArrayValue, StringValue(<<"x">>)},
        nf \in {Absent, StringValue(<<"x">>)}}

\* the schema: each known property with its type, and the required ones;
\* properties the schema does not name are allowed
SchemaProperties ==
    <<[name |-> "schema_version", type |-> "string"],
      [name |-> "elements", type |-> "array"]>>
SchemaRequired == <<"schema_version">>

\* the version the validator knows: 1.0
KnownMajor == 1
KnownMinor == 0

\* one structural violation
TypeViolation(p) ==
    [property |-> p.name, message |-> "is not of a type(s) " \o p.type]
RequiredViolation(name) ==
    [property |-> name, message |-> "requires property \"" \o name \o "\""]

\* the violations of the property types, in the schema's order
RECURSIVE typeErrors(_, _)
typeErrors(instance, i) ==
    IF i > Len(SchemaProperties)
    THEN << >>
    ELSE LET p == SchemaProperties[i]
             value == instance[p.name]
         IN  (IF value.t \notin {"undefined", p.type}
              THEN <<TypeViolation(p)>>
              ELSE << >>) \o typeErrors(instance, i + 1)

\* the violations of the required properties, in the schema's order
RECURSIVE requiredErrors(_, _)
requiredErrors(instance, i) ==
    IF i > Len(SchemaRequired)
    THEN << >>
    ELSE (IF instance[SchemaRequired[i]].t = "undefined"
          THEN <<RequiredViolation(SchemaRequired[i])>>
          ELSE << >>) \o requiredErrors(instance, i + 1)

\* a validation that stops at the first violation it finds
validateFirstOnly(instance) ==
    LET all == typeErrors(instance, 1) \o requiredErrors(instance, 1)
    IN  IF all = << >> THEN << >> ELSE <<all[1]>>

\* the structural validation of the object against the schema: every
\* violation, in order
validate(instance) == typeErrors(instance, 1) \o requiredErrors(instance, 1)

\* the segments of a string between its dots
RECURSIVE split(_, _, _)
split(s, i, current) ==
    IF i > Len(s)
    THEN <<current>>
    ELSE IF s[i] = "."
         THEN <<current>> \o split(s, i + 1, << >>)
         ELSE split(s, i + 1, Append(current, s[i]))

isNumber(segment) ==
    segment # << >> /\ \A i \in 1..Len(segment) : segment[i] \in Digits

\* the number a sequence of digits writes, from its first n digits
RECURSIVE toNumber(_, _)
toNumber(segment, n) ==
    IF n = 0 THEN 0 ELSE 10 * toNumber(segment, n - 1) + DigitValue(segment[n])

\* "<major>.<minor>.<patch>", three numbers
wellFormed(version) ==
    LET parts == split(version, 1, << >>)
    IN  Len(parts) = 3 /\ \A i \in 1..3 : isNumber(parts[i])

\* a compatibility rule that looks at the shape of the version only
compatibleAnyVersion(version) == wellFormed(version)

\* the compatibility rule: well formed, and neither the major nor the minor
\* number is greater than the known one
compatible(version) ==
    /\ wellFormed(version)
    /\ LET parts == split(version, 1, << >>)
       IN  /\ toNumber(parts[1], Len(parts[1])) <= KnownMajor
           /\ toNumber(parts[2], Len(parts[2])) <= KnownMinor

\* what a call of validateElements does
NotValidated == [kind |-> "none", message |-> << >>, errors |-> << >>]
Returned == [kind |-> "returned", message |-> << >>, errors |-> << >>]
ValidationError(errors) ==
    [kind |-> "ValidationError",
     message |-> [i \in 1..Len(errors) |-> errors[i].message],
     errors |-> errors]
InvalidVersionError ==
    [kind |-> "Error",
     message |-> <<"Invalid schema_version in AnalyzedPackage">>,
     errors |-> << >>]

\* validateElements(analyzedPackage): the structural validation first, then
\* the compatibility of the version
validateElements(analyzedPackage) ==
    LET errors == validate(analyzedPackage)
    IN  IF errors # << >>
        THEN ValidationError(errors)
        ELSE IF ~compatible(analyzedPackage.schema_version.v)
             THEN InvalidVersionError
             ELSE Returned

ValidateIdle ==
    /\ candidate = [schema_version |-> Absent, elements |-> Absent,
                    new_field |-> Absent]
    /\ validated = NotValidated

InitValidate ==
    /\ candidate \in Candidates
    /\ validated = NotValidated

\* a call of validateElements(candidate) ends in `outcome`
Validate(kind) ==
    /\ validated = NotValidated
    /\ validateElements(candidate).kind = kind
    /\ validated' = validateElements(candidate)
    /\ UNCHANGED candidate
    /\ ValidateOnly

ValidateReturns == Validate("returned")
ValidateThrowsValidationError == Validate("ValidationError")
ValidateThrowsError == Validate("Error")

NextValidate ==
    \/ ValidateReturns
    \/ ValidateThrowsValidationError
    \/ ValidateThrowsError

\* the handlers annotate a new declaration
InitSpecHandlers == InitHandlers /\ NsIdle /\ ParseIdle /\ ResolveIdle /\ ValidateIdle
SpecHandlers == InitSpecHandlers /\ [][NextHandlers]_vars

\* a scanner scans a document
InitSpecNs == InitNs /\ HandlersIdle /\ ParseIdle /\ ResolveIdle /\ ValidateIdle
SpecNs == InitSpecNs /\ [][NextNs]_vars

\* the preparser parses some contents
InitSpecParse == InitParse /\ HandlersIdle /\ NsIdle /\ ResolveIdle /\ ValidateIdle
SpecParse == InitSpecParse /\ [][NextParse]_vars

\* the scanned mixins of a document are resolved
InitSpecResolve == InitResolve /\ HandlersIdle /\ NsIdle /\ ParseIdle /\ ValidateIdle
SpecResolve == InitSpecResolve /\ [][NextResolve]_vars

\* a generated metadata object is validated
InitSpecValidate == HandlersIdle /\ NsIdle /\ ParseIdle /\ ResolveIdle /\ InitValidate
SpecValidate == InitSpecValidate /\ [][NextValidate]_vars

\* ------------------------------------------------------------ claims C1, C7

\* what a handler call appended to a list of the declaration
Added(field) ==
    SubSeq(declaration[field], Len(lastCall.before[field]) + 1,
           Len(declaration[field]))

KeepsPrefix(field) ==
    /\ Len(declaration[field]) >= Len(lastCall.before[field])
    /\ SubSeq(declaration[field], 1, Len(lastCall.before[field]))
            = lastCall.before[field]

ListenersOnObject ==
    lastCall.handler = "listeners" /\ lastCall.node.type = "ObjectExpression"

\* a key written in brackets that is not a literal: [foo], [foo()]
HasComputedKey(p) == p.computed /\ p.key.type # "Literal"
HasPlainKey(p) == ~HasComputedKey(p)

\* the entries {event, handler} of the properties whose key and value are
\* both string literals or plain identifiers naming the event
StaticEntry(p) ==
    /\ \/ p.key.type = "Literal" /\ TypeOf(p.key.value) = "string" /\ p.key.value.v # ""
       \/ p.key.type = "Identifier"
    /\ p.value.type = "Literal" /\ TypeOf(p.value.value) = "string"
EntryOf(p) ==
    [event |-> IF p.key.type = "Literal" THEN p.key.value.v ELSE p.key.name,
     handler |-> p.value.value.v]
RECURSIVE EntriesOf(_)
EntriesOf(ps) ==
    IF ps = << >> THEN << >>
    ELSE (IF StaticEntry(Head(ps)) THEN <<EntryOf(Head(ps))>> ELSE << >>)
            \o EntriesOf(Tail(ps))

\* C1: applied to an object literal, the `listeners` handler adds no listener
\* and no warning for an entry whose key is computed (written in brackets and
\* not a literal), whatever the key expression is: the listeners added are
\* those of the literal with its computed entries left out, and the warnings
\* are unchanged.
C1_ComputedKeyAddsNothing ==
    ListenersOnObject =>
        /\ KeepsPrefix("listeners")
        /\ Added("listeners")
              = EntriesOf(SelectSeq(lastCall.node.properties, HasPlainKey))
        /\ declaration.warnings = lastCall.before.warnings

BehaviorsOnArray ==
    lastCall.handler = "behaviors" /\ lastCall.node.type = "ArrayExpression"

HasName(e) == getIdentifierName(e) # NoName
NameOfElement(e) == [name |-> getIdentifierName(e), of |-> e]
RECURSIVE MapSeq(_, _)
MapSeq(Op(_), s) ==
    IF s = << >> THEN << >> ELSE <<Op(Head(s))>> \o MapSeq(Op, Tail(s))
AssignmentView(a) == [name |-> a.name, of |-> a.sourceRange.of]
HasNoName(e) == ~HasName(e)
WarningView(w) == [code |-> w.code, of |-> w.sourceRange.of]
ExpectedWarning(e) == [code |-> "could-not-determine-behavior-name", of |-> e]

\* C7: applied to an array literal, the `behaviors` handler gives every
\* element exactly one outcome: elements with a dotted identifier name are
\* appended, in the array's order, to declaration.behaviorAssignments, the
\* others are appended as 'could-not-determine-behavior-name' warnings to
\* declaration.warnings, so assignments added + warnings added = elements,
\* and nothing else of the declaration changes.
C7_BehaviorsOneOutcomeEach ==
    BehaviorsOnArray =>
        LET es == lastCall.node.elements
        IN  /\ KeepsPrefix("behaviorAssignments")
            /\ KeepsPrefix("warnings")
            /\ MapSeq(AssignmentView, Added("behaviorAssignments"))
                  = MapSeq(NameOfElement, SelectSeq(es, HasName))
            /\ MapSeq(WarningView, Added("warnings"))
                  = MapSeq(ExpectedWarning, SelectSeq(es, HasNoName))
            /\ Len(Added("behaviorAssignments")) + Len(Added("warnings")) = Len(es)
            /\ declaration.listeners = lastCall.before.listeners
            /\ declaration.observers = lastCall.before.observers
            /\ declaration.tagName = lastCall.before.tagName

\* an array mixing named and unnamed elements has been handled
C7_Witness ==
    /\ BehaviorsOnArray
    /\ Len(Added("behaviorAssignments")) >= 1
    /\ Len(Added("warnings")) >= 1

\* ------------------------------------------------------- claims C2, C3, C4

\* the statement a visit is about: the declaration itself, or the parent of
\* the assignment
StatementOf(i) ==
    IF nsDocument[i].node.type = "VariableDeclaration"
    THEN nsDocument[i].node
    ELSE nsDocument[i].parent

IsVariableDeclaration(i) == nsDocument[i].node.type = "VariableDeclaration"
Marked(i) ==
    StatementOf(i).leadingComment.present /\ StatementOf(i).leadingComment.marker
TagName(i) == StatementOf(i).leadingComment.name

\* the traversal of the current scan went past node i without an error
Passed(i) == nsStatus \in {"scanning", "returned"} /\ nsPos > i

\* positions of the namespaces of a list that belong to statement i
NamespacesOf(list, i) == {k \in 1..Len(list) : list[k].astNode.id = i}

LastResult == nsResults[Len(nsResults)]

\* one declarator declaring an identifier, a marker comment, no name tag
SingleUnnamed(i) ==
    /\ IsVariableDeclaration(i)
    /\ Len(StatementOf(i).declarations) = 1
    /\ StatementOf(i).declarations[1].id.type = "Identifier"
    /\ Marked(i)
    /\ TagName(i) = NoName

\* C2: a scan that returns yields, for every variable declaration with exactly
\* one declarator (declaring an identifier) whose attached comment contains
\* the namespace marker and has no name tag, exactly one ScannedNamespace: its
\* name is the declared identifier, its astNode the statement, its sourceRange
\* the document's range of the statement.
C2_SingleDeclaratorYieldsOne ==
    nsStatus = "returned" =>
        \A i \in 1..Len(nsDocument) :
            SingleUnnamed(i) =>
                LET found == NamespacesOf(LastResult.namespaces, i)
                IN  /\ Cardinality(found) = 1
                    /\ \A k \in found :
                        LET ns == LastResult.namespaces[k]
                        IN  /\ ns.name = <<StatementOf(i).declarations[1].id.name>>
                            /\ ns.astNode = StatementOf(i)
                            /\ ns.sourceRange = [of |-> StatementOf(i)]

\* a scan returned a namespace for such a statement, after another statement
C2_Witness ==
    /\ nsStatus = "returned"
    /\ \E i \in 2..Len(nsDocument) : SingleUnnamed(i)

MultiDeclarator(i) ==
    IsVariableDeclaration(i) /\ Len(StatementOf(i).declarations) # 1

\* C3: a variable declaration whose number of declarators is not one yields no
\* namespace, whatever its comment says: no namespace of the visitor or of a
\* returned result has it as astNode, the document is never asked for its
\* range, and no scan throws at it.
C3_MultiDeclaratorSkipped ==
    \A i \in 1..Len(nsDocument) :
        MultiDeclarator(i) =>
            /\ NamespacesOf(nsVisitor.namespaces, i) = {}
            /\ \A r \in 1..Len(nsResults) :
                    NamespacesOf(nsResults[r].namespaces, i) = {}
            /\ i \notin nsVisitor.asked
            /\ ~(nsStatus = "threw" /\ nsPos = i)

\* the traversal went past a multi-declarator statement whose comment has the
\* marker and names a namespace
C3_Witness ==
    \E i \in 1..Len(nsDocument) :
        /\ MultiDeclarator(i)
        /\ Marked(i)
        /\ TagName(i) # NoName
        /\ Passed(i)

\* a candidate node: a single-declarator declaration, or an assignment's parent
Candidate(i) ==
    IsVariableDeclaration(i) => Len(StatementOf(i).declarations) = 1

Unlocated(i) == sourceRangeForNode(StatementOf(i)) = NoRange

\* the name the code derives: the declared identifier, the left-hand side
DerivedName(i) ==
    IF IsVariableDeclaration(i)
    THEN getIdentifierName(StatementOf(i).declarations[1].id)
    ELSE getIdentifierName(nsDocument[i].node.left)

Nameable(i) == TagName(i) # NoName \/ DerivedName(i) # NoName

\* C4 as claimed: a candidate node with a marker comment for which the
\* document has no range is never passed by a scan: the scan throws at it.
C4_UnlocatedCandidateThrows ==
    \A i \in 1..Len(nsDocument) :
        (Candidate(i) /\ Marked(i) /\ Unlocated(i)) => ~Passed(i)

\* C4 as amended: a candidate node with a marker comment for which a name can
\* be determined (from the tag, else from the code) and for which the document
\* has no range is never passed by a scan: every scan of the document ends
\* with a thrown error, and a scan that reaches the node throws at it, having
\* asked the document for its range. A marked candidate for which no name can
\* be determined is skipped: no namespace, no range lookup, no error.
C4_UnlocatedNamedCandidateThrows ==
    /\ \A i \in 1..Len(nsDocument) :
        (Candidate(i) /\ Marked(i) /\ Nameable(i) /\ Unlocated(i)) =>
            /\ ~Passed(i)
            /\ \A r \in 1..Len(nsResults) : nsResults[r].threw
            /\ (nsStatus = "threw" /\ nsPos = i) => i \in nsVisitor.asked
    /\ \A i \in 1..Len(nsDocument) :
        (Candidate(i) /\ Marked(i) /\ ~Nameable(i)) =>
            /\ i \notin nsVisitor.asked
            /\ NamespacesOf(nsVisitor.namespaces, i) = {}
            /\ ~(nsStatus = "threw" /\ nsPos = i)

\* a scan threw at such a node, after passing another node
C4_Witness ==
    /\ nsStatus = "threw"
    /\ nsPos > 1
    /\ Candidate(nsPos) /\ Marked(nsPos) /\ Nameable(nsPos) /\ Unlocated(nsPos)

\* ----------------------------------------------------------- claims C5, C6

IsError(d) == d.category = "Error"
ErrorIndexes == {i \in 1..Len(sourceFile.parseDiagnostics) :
                    IsError(sourceFile.parseDiagnostics[i])}
FirstError ==
    sourceFile.parseDiagnostics[
        CHOOSE i \in ErrorIndexes : \A j \in ErrorIndexes : i <= j]

\* the range of a diagnostic in the parsed file's own coordinates
RawRange(d) ==
    LET start == getLineAndCharacterOfPosition(sourceFile, d.start)
        end == getLineAndCharacterOfPosition(sourceFile, d.start + d.length)
    IN  SourceRange(parseArgs.url,
                    Position(start.line, start.character),
                    Position(end.line, end.character))

\* C5: parse throws exactly when a diagnostic has error category: the
\* exception's warning has code 'parse-error', severity ERROR and the range of
\* the first error diagnostic, from start to start+length, passed through
\* correctSourceRange with inlineInfo.locationOffset, and no document is
\* returned; without an error diagnostic parse returns a document of the
\* contents and throws nothing.
C5_ParseErrorThrown ==
    /\ parsePc = "threw" =>
            /\ ErrorIndexes # {}
            /\ parseOutcome.kind = "exception"
            /\ parseOutcome.warning.code = "parse-error"
            /\ parseOutcome.warning.severity = "ERROR"
            /\ parseOutcome.warning.sourceRange
                    = correctSourceRange(RawRange(FirstError),
                                         parseArgs.inlineInfo.locationOffset)
    /\ parsePc = "returned" =>
            /\ ErrorIndexes = {}
            /\ parseOutcome.kind = "document"
            /\ parseOutcome.document.contents = parseArgs.contents
            /\ parseOutcome.document.url = parseArgs.url

\* parse threw for the first of two error diagnostics at different places
C5_Witness ==
    /\ parsePc = "threw"
    /\ Cardinality(ErrorIndexes) >= 1
    /\ \E i \in ErrorIndexes :
            /\ sourceFile.parseDiagnostics[i] # FirstError
            /\ RawRange(sourceFile.parseDiagnostics[i]) # RawRange(FirstError)

\* the rule for one position under an offset {line: L, column: C}
MapsAsInline(from, to, offset) ==
    /\ to.line = offset.line + from.line
    /\ from.line = 0 => to.column = from.column + offset.column
    /\ from.line > 0 => to.column = from.column

RangeMapsAsInline(from, to, offset) ==
    /\ to.file = from.file
    /\ MapsAsInline(from.start, to.start, offset)
    /\ MapsAsInline(from.end, to.end, offset)

References(f) == [i \in 1..Len(scanned[f].behaviorAssignments) |->
                    scanned[f].behaviorAssignments[i].name]

\* a list of properties with each property overridden by a later one of the
\* same name left out: the later, more local declaration wins
LocalWins(properties) ==
    LET kept == {i \in 1..Len(properties) :
                    \A j \in (i + 1)..Len(properties) :
                        properties[j].name # properties[i].name}
        Keep(p) == \E i \in kept : properties[i] = p
    IN  SelectSeq(properties, Keep)

\* f references g alone, g references h alone, h references nothing
Chain(f, g, h) ==
    /\ f # g /\ g # h /\ f # h
    /\ References(f) = <<g>>
    /\ References(g) = <<h>>
    /\ References(h) = << >>

\* C8: resolving A, which references B, which references C, yields composed
\* observer and listener lists holding C's items, then B's, then A's own, and
\* a composed property list in that order in which a property declared by
\* both A and B keeps A's declaration.
C8_ChainComposed ==
    \A f, g, h \in FeatureNames :
        (resolved.of = f /\ Chain(f, g, h)) =>
            /\ resolved.element.observers
                    = scanned[h].observers \o scanned[g].observers
                        \o scanned[f].observers
            /\ resolved.element.listeners
                    = scanned[h].listeners \o scanned[g].listeners
                        \o scanned[f].listeners
            /\ resolved.element.properties
                    = LocalWins(scanned[h].properties \o scanned[g].properties
                                    \o scanned[f].properties)

\* C9: resolving a scanned mixin without behavior references yields a feature
\* whose properties, observers and listeners are the scanned mixin's own
\* lists, element for element and in the same order.
C9_NoReferencesCopied ==
    \A f \in FeatureNames :
        (resolved.of = f /\ References(f) = << >>) =>
            /\ resolved.element.properties = scanned[f].properties
            /\ resolved.element.observers = scanned[f].observers
            /\ resolved.element.listeners = scanned[f].listeners

\* a mixin without references that declares two members of each kind has
\* been resolved
C9_Witness ==
    \E f \in FeatureNames :
        /\ resolved.of = f
        /\ References(f) = << >>
        /\ Len(scanned[f].properties) >= 2
        /\ Len(resolved.element.listeners) >= 2

\* f and g reference each other
Cycle(f, g) ==
    /\ f # g
    /\ References(f) = <<g>>
    /\ References(g) = <<f>>

\* C10: resolving a mixin on a reference cycle ends with a result that
\* carries at least one warning and from which the link closing the cycle is
\* dropped: the composed lists hold the other mixin's items once, then its own.
C10_CycleWarned ==
    \A f, g \in FeatureNames :
        (resolved.of = f /\ Cycle(f, g)) =>
            /\ Len(resolved.element.warnings) >= 1
            /\ resolved.element.listeners
                    = scanned[g].listeners \o scanned[f].listeners

\* ---------------------------------------------------------- claims C11, C12

\* the candidate has the shape the schema asks for
StructurallyValid ==
    /\ candidate.schema_version.t = "string"
    /\ candidate.elements.t \in {"undefined", "array"}

\* numbers the version characters can write, and how they are written
VersionNumbers == {0, 1, 5, 10, 11, 15}
DigitOf(n) == CASE n = 0 -> "0" [] n = 1 -> "1" [] OTHER -> "5"
Decimal(n) == IF n < 10 THEN <<DigitOf(n)>> ELSE <<DigitOf(n \div 10), DigitOf(n % 10)>>
Version(major, minor, patch) ==
    Decimal(major) \o <<".">> \o Decimal(minor) \o <<".">> \o Decimal(patch)

\* the string is digits, a dot, digits, a dot, digits
Shaped(s) ==
    \E i, j \in 1..Len(s) :
        /\ 1 < i /\ i + 1 < j /\ j < Len(s)
        /\ \A k \in 1..Len(s) :
            IF k \in {i, j} THEN s[k] = "." ELSE s[k] \in Digits

Cites(text) == \E i \in 1..Len(validated.message) : validated.message[i] = text

\* C11: a call of validateElements on a structurally valid object, with or
\* without a field the schema does not know, returns when schema_version
\* writes a version whose major and minor numbers are not greater than the
\* known ones, whatever the patch number; it throws an error whose message
\* says 'Invalid schema_version' when the major or the minor number is greater
\* or when the string is not of the form number.number.number.
C11_VersionCompatibility ==
    (validated # NotValidated /\ StructurallyValid) =>
        LET version == candidate.schema_version.v
            Rejected == /\ validated.kind = "Error"
                        /\ Cites("Invalid schema_version in AnalyzedPackage")
        IN  /\ \A major, minor, patch \in VersionNumbers :
                version = Version(major, minor, patch) =>
                    IF major <= KnownMajor /\ minor <= KnownMinor
                    THEN validated = Returned
                    ELSE Rejected
            /\ ~Shaped(version) => Rejected

\* validateElements returned for 1.0.1 with an unknown field
C11_Witness ==
    /\ validated = Returned
    /\ candidate.schema_version.v = Version(1, 0, 1)
    /\ candidate.new_field # Absent
    /\ candidate.elements = ArrayValue

\* validateElements threw for 5.1.1 with an unknown field
C11_WitnessRejected ==
    /\ validated.kind = "Error"
    /\ candidate.schema_version.v = Version(5, 1, 1)
    /\ candidate.new_field # Absent

\* the violations of the schema the candidate has, each told from the
\* candidate's fields
MissingVersion ==
    [property |-> "schema_version",
     message |-> "requires property \"schema_version\""]
ExpectedViolations ==
    (IF candidate.schema_version = Absent THEN {MissingVersion} ELSE {})
    \cup (IF candidate.schema_version = NumberValue
          THEN {[property |-> "schema_version",
                 message |-> "is not of a type(s) string"]}
          ELSE {})
    \cup (IF candidate.elements.t = "string"
          THEN {[property |-> "elements", message |-> "is not of a type(s) array"]}
          ELSE {})

\* C12: a call of validateElements on an object without schema_version throws
\* a ValidationError, never returns and never throws another error; its errors
\* are not empty, its message says the required property "schema_version" is
\* missing, and its errors are exactly the violations of the object, each
\* once: the missing property and, when elements is not an array, that too.
C12_MissingVersionThrows ==
    (validated # NotValidated /\ candidate.schema_version = Absent) =>
        /\ validated.kind = "ValidationError"
        /\ validated.errors # << >>
        /\ Cites(MissingVersion.message)
        /\ {validated.errors[i] : i \in 1..Len(validated.errors)} = ExpectedViolations
        /\ Len(validated.errors) = Cardinality(ExpectedViolations)

\* validateElements threw for an object without schema_version whose elements
\* is not an array: two violations
C12_Witness ==
    /\ validated.kind = "ValidationError"
    /\ candidate.schema_version = Absent
    /\ candidate.elements.t = "string"
    /\ Len(validated.errors) = 2

\* --------------------------------------------------------- claims C13, C14

\* the name the claim gives the namespace of statement i
ClaimedName(i) == IF TagName(i) # NoName THEN TagName(i) ELSE DerivedName(i)

\* C13: every namespace the visitor holds or a scan returned has as astNode
\* the statement it was found on (for an assignment: the assignment's parent)
\* and as sourceRange the document's range of that statement; its name is the
\* name of the tag when the tag has one, whatever the code would give, and the
\* name derived from the code only when the tag has none. A statement with a
\* marker comment, a range and a tag name that the traversal passed has
\* exactly one such namespace.
C13_TagNameWins ==
    LET Right(ns) ==
            \E i \in 1..Len(nsDocument) :
                /\ ns.astNode = StatementOf(i)
                /\ ns.sourceRange = sourceRangeForNode(StatementOf(i))
                /\ ns.sourceRange # NoRange
                /\ ns.name = ClaimedName(i)
                /\ ns.name # NoName
        AllRight(list) == \A k \in 1..Len(list) : Right(list[k])
    IN  /\ AllRight(nsVisitor.namespaces)
        /\ \A r \in 1..Len(nsResults) : AllRight(nsResults[r].namespaces)
        /\ \A i \in 1..Len(nsDocument) :
            (Passed(i) /\ Candidate(i) /\ Marked(i) /\ TagName(i) # NoName) =>
                /\ Cardinality(NamespacesOf(nsVisitor.namespaces, i)) = 1
                /\ \A k \in NamespacesOf(nsVisitor.namespaces, i) :
                        nsVisitor.namespaces[k].name = TagName(i)

\* a scan returned, for an assignment whose tag names the namespace otherwise
\* than its left-hand side does, a namespace on the parent statement
C13_Witness ==
    /\ nsStatus = "returned"
    /\ \E i \in 1..Len(nsDocument) :
        /\ ~IsVariableDeclaration(i)
        /\ Marked(i)
        /\ TagName(i) # NoName
        /\ DerivedName(i) # NoName
        /\ DerivedName(i) # TagName(i)
        /\ \E k \in NamespacesOf(LastResult.namespaces, i) :
                LastResult.namespaces[k].astNode = nsDocument[i].parent

\* the namespaces of a list follow the traversal: their statements come in
\* the document's order, none twice
InTraversalOrder(list) ==
    \A k, l \in 1..Len(list) : k < l => list[k].astNode.id < list[l].astNode.id

\* C14: all finished scans of the document by the one scanner ended alike:
\* either every one threw, or every one returned the same sequence of
\* namespaces, in the order the traversal meets their statements; a scan
\* starts with a visitor that holds nothing of an earlier scan; and no step of
\* a scan changes the nodes of the document.
C14_ScanIdempotent ==
    /\ [](/\ \A r, s \in 1..Len(nsResults) : nsResults[r] = nsResults[s]
          /\ \A r \in 1..Len(nsResults) : InTraversalOrder(nsResults[r].namespaces)
          /\ (nsStatus = "scanning" /\ nsPos = 1) => nsVisitor = NewVisitor)
    /\ [][nsDocument' = nsDocument]_vars

\* two scans of a document returned, each with two namespaces
C14_Witness ==
    /\ Len(nsResults) >= 2
    /\ nsStatus = "returned"
    /\ \A r \in 1..2 : ~nsResults[r].threw /\ Len(nsResults[r].namespaces) = 2

\* ------------------------------------------------------------- claim C15

\* the key is statically a string: a string literal, or a plain identifier
\* that is not written in brackets; the value is: a string literal
KeyIsStaticString(p) ==
    \/ p.key.type = "Literal" /\ TypeOf(p.key.value) = "string"
    \/ p.key.type = "Identifier" /\ ~p.computed
ValueIsStaticString(p) ==
    p.value.type = "Literal" /\ TypeOf(p.value.value) = "string"
BothStaticStrings(p) == KeyIsStaticString(p) /\ ValueIsStaticString(p)

\* C15: a call of the `listeners` handler on a node that is not an object
\* literal appends exactly one warning, with code
\* 'invalid-listeners-declaration' and severity ERROR, and leaves
\* declaration.listeners as it was; a call on an object literal appends, in
\* the order of the properties, {event, handler} for exactly the properties
\* whose key and value are both statically a string, and adds no warning.
C15_ListenersHandler ==
    lastCall.handler = "listeners" =>
        IF lastCall.node.type # "ObjectExpression"
        THEN /\ KeepsPrefix("warnings")
             /\ Len(Added("warnings")) = 1
             /\ Added("warnings")[1].code = "invalid-listeners-declaration"
             /\ Added("warnings")[1].severity = "ERROR"
             /\ declaration.listeners = lastCall.before.listeners
        ELSE /\ KeepsPrefix("listeners")
             /\ Added("listeners")
                    = MapSeq(EntryOf, SelectSeq(lastCall.node.properties,
                                                BothStaticStrings))
             /\ declaration.warnings = lastCall.before.warnings

\* ------------------------------------------------------------- claim C16

\* C16: no call of resolve changes a scanned mixin; resolve can be called
\* again after any number of calls (here: up to MaxResolves); and what a call
\* on the mixin f returned is a PolymerElementMixin of kinds 'element-mixin'
\* and 'polymer-element-mixin', no other, with the warnings and the
\* behaviorAssignments of the scanned mixin f, and with its name.
C16_ResolveFrame ==
    /\ [](/\ resolveCount < MaxResolves => ENABLED Resolve
          /\ resolved # NotResolved =>
                /\ resolved.element.kinds = {"element-mixin", "polymer-element-mixin"}
                /\ resolved.element.warnings = scanned[resolved.of].warnings
                /\ resolved.element.behaviorAssignments
                        = scanned[resolved.of].behaviorAssignments
                /\ resolved.element.name = resolved.of)
    /\ [][scanned' = scanned]_vars

\* resolve was called twice, the second time on a mixin that has a warning
\* and names a behavior
C16_Witness ==
    /\ resolveCount = 2
    /\ scanned[resolved.of].warnings # << >>
    /\ scanned[resolved.of].behaviorAssignments # << >>
    /\ resolved.element.behaviorAssignments # << >>

====
